---------------------------- MODULE Spec2Model ----------------------------
(***************************************************************************)
(* Ads Studio backend: the server-sent-event fan-out (src/main.py,         *)
(* _listeners / _notify / _event_generator and the handlers that           *)
(* broadcast) and the publish pipeline (publish_campaign in src/main.py    *)
(* and in src/backend/main.py, with the credential store they read).       *)
(*                                                                         *)
(* Python's None is the model value None.  Wall-clock timestamps (ts,      *)
(* created_at, updated_at) are left out of every record: nothing in the    *)
(* code branches on them.                                                  *)
(***************************************************************************)
EXTENDS Naturals, Sequences, FiniteSets

None == "None"

(***************************************************************************)
(* Bounds of the exploration.                                              *)
(***************************************************************************)
MaxEvents == 2         \* events created by handlers in one run
MaxQueues == 4         \* queues of the registry the removals are tried on
MaxTargets == 6        \* longest target list of a publish request
MaxUpserts == 2        \* upsert_account calls that built the credential store
MaxLogs == 1           \* publish calls of one run that write a log record

(***************************************************************************)
(* Program constants.                                                      *)
(***************************************************************************)
HeartbeatTimeout == 15 \* wait_for(q.get(), timeout=15)
FanOutCap == 5         \* accounts[:5]

VARIABLES
    _listeners,  \* the module-level list of subscriber queues
    queue,       \* queue[s]: the items of session s's asyncio.Queue
    pc,          \* pc[s]: where session s's generator is suspended
    evt,         \* evt[s]: the generator's local evt (last event taken)
    delivered,   \* delivered[s]: the events s has yielded as message frames
    clientGone,  \* clientGone[s]: the client of s has dropped the connection
    tasks,       \* _notify tasks created and not yet run, in creation order
    published,   \* the events _notify was called with, in call order
    nextId,      \* the number of events created so far
    broken,      \* the queues whose put raises: none in the application
    running,     \* SpecInterleaved: the _notify calls begun, each with its
                 \* snapshot and how far its loop has got
    reply,       \* the reply of the most recent request handler
    tokens,      \* the credential collection, in insertion order
    campaigns,   \* the campaign collection, in insertion order
    logs,        \* the log collection, in insertion order
    request,     \* the publish request served in this run, and by which app
    upserts,     \* SpecUpsert: upserts[r] is how far call r of
                 \* upsert_account has got, with its body and what it found
    lastOp       \* SpecRegistry: the list operation last applied to
                 \* _listeners on its own, and how it ended

streamVars == <<_listeners, queue, pc, evt, delivered, clientGone, tasks,
                published, nextId, broken, running>>

pubVars == <<tokens, campaigns, logs, request, upserts>>

vars == <<streamVars, reply, lastOp, pubVars>>

\* The streaming connections opened in one run; a session's queue is named
\* after the session.
Sessions == {"s1", "s2"}

Range(f) == {f[i] : i \in DOMAIN f}

(***************************************************************************)
(* Python list operations used on _listeners.                              *)
(***************************************************************************)
\* First index of q in L, 0 when absent.
IndexOf(L, q) ==
    IF \E i \in DOMAIN L : L[i] = q
    THEN CHOOSE i \in DOMAIN L : L[i] = q /\ \A j \in 1 .. (i - 1) : L[j] # q
    ELSE 0

\* list.remove(q): drops the first occurrence; ValueError when q is absent.
ListRemove(L, q) ==
    IF IndexOf(L, q) = 0
    THEN [raised |-> TRUE, list |-> L]
    ELSE [raised |-> FALSE,
          list |-> SubSeq(L, 1, IndexOf(L, q) - 1)
                   \o SubSeq(L, IndexOf(L, q) + 1, Len(L))]

(***************************************************************************)
(* Frames of the event stream (two lines and a blank line each).  The      *)
(* payload of a message frame is json.dumps of the event, which is         *)
(* one-to-one on the events the handlers build, so the frame carries the   *)
(* event.                                                                  *)
(***************************************************************************)
HelloFrame == [event |-> "ping", data |-> [type |-> "hello"]]
PingFrame == [event |-> "ping", data |-> [type |-> "ping"]]
MessageFrame(e) == [event |-> "message", data |-> e]


(***************************************************************************)
(* _notify.  asyncio.Queue() is unbounded, so q.put(event) enqueues at     *)
(* once, without suspending and without raising: the whole coroutine runs  *)
(* in one step of the event loop.                                          *)
(***************************************************************************)
\* Whether q.put raises.  The put of an unbounded asyncio.Queue never does,
\* and the application runs with broken = {}; the except clause of _notify
\* is exercised with queues whose put is made to fail.
PutRaises(q) == q \in broken

\* q.put waiting for room whenever the queue holds an item, as a queue made
\* with maxsize=1 would.
PutWaitsWhenNonEmpty(items) == items # <<>>

\* Whether q.put(event) has to wait for room in a queue holding items:
\* never, the queue being made by asyncio.Queue() with no maxsize.
PutWaits(items) == FALSE

\* QueuePut that leaves the event in the queue twice.
QueuePutTwice(qs, q, e) == [qs EXCEPT ![q] = @ \o <<e, e>>]

\* QueuePut with the event put in front of the waiting items.
QueuePutFront(qs, q, e) == [qs EXCEPT ![q] = <<e>> \o @]

\* q.put(event) on the queue of subscriber q.
QueuePut(qs, q, e) == [qs EXCEPT ![q] = Append(@, e)]

\* NotifyPuts that stops after the first subscriber of the snapshot.
NotifyPutsFirstOnly(snapshot, qs, e) ==
    IF snapshot = <<>> THEN qs ELSE [qs EXCEPT ![Head(snapshot)] = Append(@, e)]

\* NotifyPuts as two broadcasts that took turns would leave the queues: the
\* first subscriber gets the event behind what waits, the others ahead of it.
NotifyPutsOvertaking(snapshot, qs, e) ==
    [q \in DOMAIN qs |->
        IF snapshot # <<>> /\ q = Head(snapshot)
        THEN Append(qs[q], e)
        ELSE IF q \in Range(snapshot) THEN <<e>> \o qs[q] ELSE qs[q]]

\* for q in list(_listeners): try: await q.put(event)
RECURSIVE NotifyPuts(_, _, _)
NotifyPuts(snapshot, qs, e) ==
    IF snapshot = <<>>
    THEN qs
    ELSE NotifyPuts(Tail(snapshot),
                    IF PutRaises(Head(snapshot))
                    THEN qs
                    ELSE QueuePut(qs, Head(snapshot), e),
                    e)

\* The except clause collecting nothing.
NotifyDeadNone(snapshot) == <<>>

\* except Exception: dead.append(q)
NotifyDead(snapshot) == SelectSeq(snapshot, PutRaises)

\* TryRemove without the except clause.
TryRemoveNoExcept(L, q) == ListRemove(L, q)

\* try: _listeners.remove(q) except ValueError: pass
TryRemove(L, q) == [raised |-> FALSE, list |-> ListRemove(L, q).list]

\* for q in dead: try: _listeners.remove(q) except ValueError: pass
\* (an exception that escaped would end the loop where it was raised)
RECURSIVE RemoveDead(_, _)
RemoveDead(L, dead) ==
    IF dead = <<>>
    THEN [raised |-> FALSE, list |-> L]
    ELSE IF TryRemove(L, Head(dead)).raised
         THEN TryRemove(L, Head(dead))
         ELSE RemoveDead(TryRemove(L, Head(dead)).list, Tail(dead))

_notify(e) ==
    /\ \A q \in Range(_listeners) : ~PutWaits(queue[q])
    /\ queue' = NotifyPuts(_listeners, queue, e)
    /\ _listeners' = RemoveDead(_listeners, NotifyDead(_listeners)).list
    /\ published' = Append(published, e)

(***************************************************************************)
(* _event_generator, one action per stretch between two suspensions.       *)
(***************************************************************************)
\* FinallyRemove that leaves the list as it is.
FinallyKeep(L, q) == [raised |-> FALSE, list |-> L]

\* FinallyRemove without the membership test.
FinallyRemoveUnguarded(L, q) == ListRemove(L, q)

\* finally: if q in _listeners: _listeners.remove(q)
FinallyRemove(L, q) ==
    IF q \in Range(L) THEN ListRemove(L, q) ELSE [raised |-> FALSE, list |-> L]

\* The generator leaves through its finally block.
Close(s) ==
    /\ _listeners' = FinallyRemove(_listeners, s).list
    /\ pc' = [pc EXCEPT ![s] = "closed"]

\* First __anext__: the queue is created and registered, hello is yielded.
Connect(s) ==
    /\ pc[s] = "idle"
    /\ _listeners' = Append(_listeners, s)
    /\ pc' = [pc EXCEPT ![s] = "yield_hello"]
    /\ UNCHANGED <<queue, evt, delivered, clientGone, tasks, published,
                   nextId, reply, lastOp, pubVars,
                   broken, running>>

\* The consumer asks for the next frame: the generator runs from its yield
\* to await request.is_disconnected().
Resume(s) ==
    /\ pc[s] \in {"yield_hello", "yield_msg", "yield_ping"}
    /\ pc' = [pc EXCEPT ![s] = "check"]
    /\ UNCHANGED <<_listeners, queue, evt, delivered, clientGone, tasks,
                   published, nextId, reply, lastOp, pubVars,
                   broken, running>>

\* is_disconnected() returns True: break, then finally.
CheckDisconnected(s) ==
    /\ pc[s] = "check"
    /\ clientGone[s]
    /\ Close(s)
    /\ UNCHANGED <<queue, evt, delivered, clientGone, tasks, published,
                   nextId, reply, lastOp, pubVars,
                   broken, running>>

\* is_disconnected() returns False: the generator goes on to
\* await asyncio.wait_for(q.get(), timeout=15).
CheckConnected(s) ==
    /\ pc[s] = "check"
    /\ ~clientGone[s]
    /\ pc' = [pc EXCEPT ![s] = "wait"]
    /\ UNCHANGED <<_listeners, queue, evt, delivered, clientGone, tasks,
                   published, nextId, reply, lastOp, pubVars,
                   broken, running>>

\* q.get() returns the oldest item within the timeout; it is yielded as a
\* message frame.
GetEvent(s) ==
    /\ pc[s] = "wait"
    /\ queue[s] # <<>>
    /\ evt' = [evt EXCEPT ![s] = Head(queue[s])]
    /\ queue' = [queue EXCEPT ![s] = Tail(@)]
    /\ delivered' = [delivered EXCEPT ![s] = Append(@, Head(queue[s]))]
    /\ pc' = [pc EXCEPT ![s] = "yield_msg"]
    /\ UNCHANGED <<_listeners, clientGone, tasks, published, nextId, reply, lastOp, pubVars,
                   broken, running>>

\* Timeout that swallows the TimeoutError and loops without a frame.
TimeoutSilent(s) ==
    /\ pc[s] = "wait"
    /\ queue[s] = <<>>
    /\ pc' = [pc EXCEPT ![s] = "check"]
    /\ UNCHANGED <<_listeners, queue, evt, delivered, clientGone, tasks,
                   published, nextId, reply, lastOp, pubVars,
                   broken, running>>

\* HeartbeatTimeout seconds pass with the queue empty: asyncio.TimeoutError,
\* a ping frame is yielded.
Timeout(s) ==
    /\ pc[s] = "wait"
    /\ queue[s] = <<>>
    /\ pc' = [pc EXCEPT ![s] = "yield_ping"]
    /\ UNCHANGED <<_listeners, queue, evt, delivered, clientGone, tasks,
                   published, nextId, reply, lastOp, pubVars,
                   broken, running>>

\* The task iterating the generator is cancelled while the generator is
\* suspended in one of its two awaits: CancelledError unwinds through finally.
Cancel(s) ==
    /\ pc[s] \in {"check", "wait"}
    /\ Close(s)
    /\ UNCHANGED <<queue, evt, delivered, clientGone, tasks, published,
                   nextId, reply, lastOp, pubVars,
                   broken, running>>

\* The generator is closed while suspended at a yield (aclose(), by the
\* consumer or by the event loop's finalizer): GeneratorExit unwinds through
\* finally.
GenExit(s) ==
    /\ pc[s] \in {"yield_hello", "yield_msg", "yield_ping"}
    /\ Close(s)
    /\ UNCHANGED <<queue, evt, delivered, clientGone, tasks, published,
                   nextId, reply, lastOp, pubVars,
                   broken, running>>

\* The client drops the connection of an open stream.
ClientDisconnect(s) ==
    /\ pc[s] \notin {"idle", "closed"}
    /\ ~clientGone[s]
    /\ clientGone' = [clientGone EXCEPT ![s] = TRUE]
    /\ UNCHANGED <<_listeners, queue, pc, evt, delivered, tasks, published,
                   nextId, reply, lastOp, pubVars,
                   broken, running>>

\* The frame the generator is suspended on, None when it is not at a yield.
YieldedFrame(s) ==
    CASE pc[s] = "yield_hello" -> HelloFrame
      [] pc[s] = "yield_ping" -> PingFrame
      [] pc[s] = "yield_msg" -> MessageFrame(evt[s])
      [] OTHER -> None

\* An Optional list that is None.
NullList == [null |-> TRUE, items |-> <<>>]

Digits == <<"0", "1", "2", "3", "4", "5", "6", "7", "8", "9">>

RECURSIVE Decimal(_)
\* An int as str() and an f-string print it.
Decimal(n) ==
    IF n < 10
    THEN Digits[n + 1]
    ELSE Decimal(n \div 10) \o Digits[(n % 10) + 1]

(***************************************************************************)
(* Handlers that broadcast.  An event is [type, id]; id stands for the     *)
(* content that tells two events apart (the document id, the typing        *)
(* payload) and numbers the events in the order the handlers built them.   *)
(***************************************************************************)
\* The value of evt before the first q.get() returns.
NoEvent == [type |-> None, id |-> 0]

\* async def typing_event: await _notify(payload) in the handler itself.
typing_event ==
    /\ nextId < MaxEvents
    /\ nextId' = nextId + 1
    /\ _notify([type |-> "typing", id |-> nextId + 1])
    /\ reply' = [handler |-> "typing_event", status |-> 200]
    /\ UNCHANGED <<pc, evt, delivered, clientGone, tasks, lastOp, pubVars,
                   broken, running>>

\* def add_post_comment: the comment is stored, then
\* asyncio.create_task(_notify(...)).  create_task needs a running event loop
\* in the calling thread: with one (loopRunning) the task joins the loop's
\* ready queue; without one (FastAPI runs a plain def handler in a worker
\* thread) it raises RuntimeError and the request fails.
add_post_comment(loopRunning) ==
    /\ nextId < MaxEvents
    /\ nextId' = nextId + 1
    /\ IF loopRunning
       THEN /\ tasks' = Append(tasks, [type |-> "comment_created",
                                       id |-> nextId + 1])
            /\ reply' = [handler |-> "add_post_comment", status |-> 200]
       ELSE /\ tasks' = tasks
            /\ reply' = [handler |-> "add_post_comment", status |-> 500]
    /\ UNCHANGED <<_listeners, queue, pc, evt, delivered, clientGone,
                   published, lastOp, pubVars,
                   broken, running>>

\* def create_campaign: the campaign and its top post are stored, then
\* asyncio.create_task(_notify(...)) inside try/except Exception: pass, so
\* the RuntimeError of a thread without a running loop is swallowed and the
\* campaign is returned with no event created.
create_campaign(loopRunning) ==
    /\ nextId < MaxEvents
    /\ nextId' = nextId + 1
    /\ campaigns' = Append(campaigns, [id |-> Decimal(nextId + 1),
                                       social_accounts |-> NullList])
    /\ tasks' = IF loopRunning
                THEN Append(tasks, [type |-> "toppost_created",
                                    id |-> nextId + 1])
                ELSE tasks
    /\ reply' = [handler |-> "create_campaign", status |-> 200]
    /\ UNCHANGED <<_listeners, queue, pc, evt, delivered, clientGone,
                   published, lastOp, tokens, logs, request, upserts, broken,
                   running>>

\* The event loop runs the oldest task created by create_task: _notify.
RunTask ==
    /\ tasks # <<>>
    /\ _notify(Head(tasks))
    /\ tasks' = Tail(tasks)
    /\ UNCHANGED <<pc, evt, delivered, clientGone, nextId, reply, lastOp, pubVars,
                   broken, running>>

InitSessions ==
    /\ queue = [s \in Sessions |-> <<>>]
    /\ pc = [s \in Sessions |-> "idle"]
    /\ evt = [s \in Sessions |-> NoEvent]
    /\ delivered = [s \in Sessions |-> <<>>]
    /\ clientGone = [s \in Sessions |-> FALSE]
    /\ tasks = <<>>
    /\ published = <<>>
    /\ nextId = 0
    /\ broken = {}
    /\ running = {}

InitStream == _listeners = <<>> /\ InitSessions

NoReply == [handler |-> None, status |-> 0]

NextStream ==
    \/ \E s \in Sessions : Connect(s)
    \/ \E s \in Sessions : Resume(s)
    \/ \E s \in Sessions : CheckDisconnected(s)
    \/ \E s \in Sessions : CheckConnected(s)
    \/ \E s \in Sessions : GetEvent(s)
    \/ \E s \in Sessions : Timeout(s)
    \/ \E s \in Sessions : Cancel(s)
    \/ \E s \in Sessions : GenExit(s)
    \/ \E s \in Sessions : ClientDisconnect(s)
    \/ typing_event
    \/ \E loopRunning \in BOOLEAN : add_post_comment(loopRunning)
    \/ RunTask

NoOp == [kind |-> None]

NoRequest == [app |-> None]

\* No publish request and empty collections.
\* The body of a call of upsert_account that has not arrived.
NoBody ==
    [platform |-> None, page_id |-> None, page_name |-> None,
     access_token |-> None]

\* No call of upsert_account has arrived.
NoUpserts ==
    [r \in 1 .. MaxUpserts |-> [pc |-> "idle", body |-> NoBody, existing |-> 0]]

InitNoPublish ==
    /\ tokens = <<>>
    /\ campaigns = <<>>
    /\ logs = <<>>
    /\ request = NoRequest
    /\ upserts = NoUpserts

Init ==
    /\ InitStream
    /\ reply = NoReply
    /\ lastOp = NoOp
    /\ InitNoPublish

SpecStream == Init /\ [][NextStream]_vars

\* The stream together with the handler that stores a campaign.
NextMutations ==
    \/ NextStream
    \/ \E loopRunning \in BOOLEAN : create_campaign(loopRunning)

SpecMutations == Init /\ [][NextMutations]_vars

(***************************************************************************)
(* The credential store.  A credential document is                         *)
(* [platform, page_id, page_name, access_token]; expires_at and owner_id   *)
(* are stored too and read by nothing here.                                *)
(***************************************************************************)
\* Python's truth value of an Optional[str].
Truthy(v) == v # None /\ v # ""

Min(a, b) == IF a < b THEN a ELSE b

\* Whether a document passes a pymongo equality filter.
Matches(doc, q) == \A k \in DOMAIN q : doc[k] = q[k]

\* collection.find_one(q): the place of the first document that passes the
\* filter, 0 for None.
find_one(docs, q) ==
    IF \E i \in DOMAIN docs : Matches(docs[i], q)
    THEN CHOOSE i \in DOMAIN docs :
             /\ Matches(docs[i], q)
             /\ \A j \in 1 .. (i - 1) : ~Matches(docs[j], q)
    ELSE 0

\* upsert_account of src/main.py: the key filter.
KeyFilter(body) ==
    IF Truthy(body.page_id)
    THEN [platform |-> body.platform, page_id |-> body.page_id]
    ELSE IF Truthy(body.page_name)
         THEN [platform |-> body.platform, page_name |-> body.page_name]
         ELSE [platform |-> body.platform]

\* upsert_account of src/main.py on the store: $set of every field of the
\* body on the document found, else an insert.
upsert_account(store, body) ==
    IF find_one(store, KeyFilter(body)) # 0
    THEN [store EXCEPT ![find_one(store, KeyFilter(body))] = body]
    ELSE Append(store, body)

\* upsert_account of src/backend/main.py: the key filter.
BackendKeyFilter(body) ==
    IF Truthy(body.page_id)
    THEN [platform |-> body.platform, page_id |-> body.page_id]
    ELSE [platform |-> body.platform]

\* model_dump(exclude_none=True) then $set: a field that is None in the body
\* keeps the stored value.
MergeNotNone(doc, body) ==
    [k \in DOMAIN doc |-> IF body[k] = None THEN doc[k] ELSE body[k]]

\* upsert_account of src/backend/main.py on the store.  An inserted document
\* lacks the fields that are None in the body; to the equality filters and
\* to .get() a missing field and a None field are the same.
backend_upsert_account(store, body) ==
    IF find_one(store, BackendKeyFilter(body)) # 0
    THEN [store EXCEPT ![find_one(store, BackendKeyFilter(body))] =
              MergeNotNone(@, body)]
    ELSE Append(store, body)

\* upsert_account of src/main.py from `data = body.model_dump()` on:
\* update_one by the _id of the document found, else create_document.
WriteAccount(store, body, existing) ==
    IF existing # 0
    THEN [store EXCEPT ![existing] = body]
    ELSE Append(store, body)

\* upsert_account of src/backend/main.py from `data = ...` on.
BackendWriteAccount(store, body, existing) ==
    IF existing # 0
    THEN [store EXCEPT ![existing] = MergeNotNone(@, body)]
    ELSE Append(store, body)

\* The bodies the accounts endpoint is called with.
Bodies ==
    { [platform |-> "facebook", page_id |-> "p1", page_name |-> "A",
       access_token |-> "t1"],
      [platform |-> "facebook", page_id |-> "p2", page_name |-> "B",
       access_token |-> "t2"],
      [platform |-> "instagram", page_id |-> None, page_name |-> None,
       access_token |-> ""] }

BodySeqs == UNION {[1 .. n -> Bodies] : n \in 0 .. MaxUpserts}

RECURSIVE StoreAfter(_, _)
\* The store after the upserts of bs, oldest first, on an empty collection.
StoreAfter(bs, n) ==
    IF n = 0 THEN <<>> ELSE upsert_account(StoreAfter(bs, n - 1), bs[n])

RECURSIVE BackendStoreAfter(_, _)
BackendStoreAfter(bs, n) ==
    IF n = 0
    THEN <<>>
    ELSE backend_upsert_account(BackendStoreAfter(bs, n - 1), bs[n])

Stores == {StoreAfter(bs, Len(bs)) : bs \in BodySeqs}

BackendStores == {BackendStoreAfter(bs, Len(bs)) : bs \in BodySeqs}

(***************************************************************************)
(* publish_campaign of src/main.py.  An Optional list is                   *)
(* [null, items]; an Optional campaign is [present, social_accounts].      *)
(***************************************************************************)
List(items) == [null |-> FALSE, items |-> items]

\* (x or [])
OrEmpty(x) == IF x.null THEN <<>> ELSE x.items

NoCampaign == [present |-> FALSE, social_accounts |-> NullList]

\* accounts[:5] cut one short.
TruncateShort(accounts) ==
    SubSeq(accounts, 1, Min(Len(accounts), FanOutCap - 1))

\* accounts[:5]
Truncate(accounts) == SubSeq(accounts, 1, Min(Len(accounts), FanOutCap))

\* The filter of the credential lookup with the page name left out.
TokenQueryPlatformOnly(acc) == [platform |-> acc.platform]

\* q = {"platform": acc.platform}; if acc.page_name: q["page_name"] = ...
TokenQuery(acc) ==
    IF Truthy(acc.page_name)
    THEN [platform |-> acc.platform, page_name |-> acc.page_name]
    ELSE [platform |-> acc.platform]

\* The place in the store of the credential looked up for acc, 0 when the
\* target has a token of its own or nothing is found.
UsedCredential(store, acc) ==
    IF Truthy(acc.access_token) THEN 0 ELSE find_one(store, TokenQuery(acc))

\* One pass of the enrichment loop.
EnrichOne(store, acc) ==
    IF UsedCredential(store, acc) = 0
    THEN acc
    ELSE [platform |-> acc.platform,
          page_name |-> store[UsedCredential(store, acc)].page_name,
          access_token |-> store[UsedCredential(store, acc)].access_token]

\* The enrichment loop dropping every target it could not give a token.
EnrichDropUnresolved(store, accounts) ==
    SelectSeq([i \in DOMAIN accounts |-> EnrichOne(store, accounts[i])],
              LAMBDA acc : Truthy(acc.access_token))

\* if db is not None and accounts: ...; db is the connected database.
Enrich(store, accounts) ==
    [i \in DOMAIN accounts |-> EnrichOne(store, accounts[i])]

\* One pass of the classification loop.
ClassifyOne(acc) ==
    IF ~Truthy(acc.access_token)
    THEN [platform |-> acc.platform, page_name |-> acc.page_name,
          status |-> "error",
          message |-> "Missing access token for this page"]
    ELSE [platform |-> acc.platform, page_name |-> acc.page_name,
          status |-> "success", message |-> "Queued for publish"]

\* The classification loop leaving at the first target without a token.
ClassifyStopAtError(accounts) ==
    [i \in {j \in DOMAIN accounts :
                \A k \in 1 .. (j - 1) : Truthy(accounts[k].access_token)}
        |-> ClassifyOne(accounts[i])]

Classify(accounts) == [i \in DOMAIN accounts |-> ClassifyOne(accounts[i])]

\* The count of every result, successful or not.
CountAll(results) == Len(results)

\* sum(1 for r in results if r.status == "success")
SuccessCount(results) ==
    Cardinality({i \in DOMAIN results : results[i].status = "success"})

\* f"Prepared {success_count}/{len(results)} posts for publishing"
Summary(results) ==
    "Prepared " \o Decimal(SuccessCount(results)) \o "/"
        \o Decimal(Len(results)) \o " posts for publishing"

\* get_documents(collection, {}) of the storage module: every document of
\* the collection, in stored order.
get_documents(collection) == collection

\* create_document(collection, data) of the storage module: the collection
\* with the document inserted.
create_document(collection, data) == Append(collection, data)

\* The search taking the first stored campaign whatever its identifier.
FindCampaignFirst(docs, id) == IF docs = <<>> THEN 0 ELSE 1

\* next((d for d in docs if str(d.get("_id")) == body.campaign_id), None):
\* the place of the stored campaign, 0 for None.
FindCampaign(docs, id) ==
    IF \E i \in DOMAIN docs : docs[i].id = id
    THEN CHOOSE i \in DOMAIN docs :
             docs[i].id = id /\ \A j \in 1 .. (i - 1) : docs[j].id # id
    ELSE 0

\* CampaignAccounts that takes the stored campaign when campaign_id names
\* one, the inline campaign otherwise.
CampaignAccountsStoredFirst(body) ==
    IF /\ Truthy(body.campaign_id)
       /\ FindCampaign(get_documents(campaigns), body.campaign_id) # 0
    THEN OrEmpty(get_documents(campaigns)
                     [FindCampaign(get_documents(campaigns),
                                   body.campaign_id)].social_accounts)
    ELSE OrEmpty(body.campaign.social_accounts)

\* The target list publish_campaign works on, before the cut.
CampaignAccounts(body) ==
    IF body.campaign.present
    THEN OrEmpty(body.campaign.social_accounts)
    ELSE OrEmpty(get_documents(campaigns)
                     [FindCampaign(get_documents(campaigns),
                                   body.campaign_id)].social_accounts)

publish_campaign ==
    /\ request.app = "main"
    /\ Len(logs) < MaxLogs
    /\ LET body == request.body IN
       IF ~body.campaign.present /\ ~Truthy(body.campaign_id)
       THEN /\ reply' = [handler |-> "publish_campaign", status |-> 400,
                         detail |-> "Provide campaign or campaign_id"]
            /\ logs' = logs
       ELSE IF /\ ~body.campaign.present
               /\ FindCampaign(get_documents(campaigns),
                               body.campaign_id) = 0
            THEN /\ reply' = [handler |-> "publish_campaign",
                              status |-> 404,
                              detail |-> "Campaign not found"]
                 /\ logs' = logs
            ELSE LET accounts == Truncate(CampaignAccounts(body))
                     enriched == Enrich(tokens, accounts)
                     results == Classify(enriched)
                 IN /\ logs' = create_document(logs,
                                 [type |-> "publish", results |-> results])
                    /\ reply' = [handler |-> "publish_campaign",
                                 status |-> 200,
                                 campaign_id |-> body.campaign_id,
                                 results |-> results,
                                 summary |-> Summary(results),
                                 targets |-> CampaignAccounts(body),
                                 accounts |-> enriched,
                                 used |-> [i \in DOMAIN accounts |->
                                     UsedCredential(tokens, accounts[i])]]
    /\ UNCHANGED <<streamVars, lastOp, tokens, campaigns, request, upserts>>

(***************************************************************************)
(* publish_campaign of src/backend/main.py.  A target is a string          *)
(* "platform" or "platform:page_id", kept as its ":"-separated segments.   *)
(***************************************************************************)
\* (acc.split(":", 1) + [None])[:2]
Split(acc) ==
    [platform |-> acc[1],
     page_id |-> IF Len(acc) > 1 THEN acc[2] ELSE None]

\* get_document_by_id(COLL_CAMPAIGN, id): the place of the document, 0 for
\* None.
get_document_by_id(docs, id) ==
    IF \E i \in DOMAIN docs : docs[i].id = id
    THEN CHOOSE i \in DOMAIN docs : docs[i].id = id
    ELSE 0

\* payload.social_accounts or campaign.get("social_accounts", [])
\*     if campaign else []
\* which Python reads as (A or B) if campaign else [].
BackendAccounts(payload) ==
    IF Truthy(payload.campaign_id)
    THEN IF OrEmpty(payload.social_accounts) # <<>>
         THEN OrEmpty(payload.social_accounts)
         ELSE OrEmpty(campaigns[get_document_by_id(campaigns,
                                    payload.campaign_id)].social_accounts)
    ELSE <<>>

\* social_accounts[:5]
FirstFive(social_accounts) ==
    SubSeq(social_accounts, 1, Min(Len(social_accounts), FanOutCap))

\* The place of token_doc in the store, 0 for None: by page_id when one is
\* given, else (or when that finds nothing) by platform.
BackendResolve(store, acc) ==
    IF /\ Truthy(Split(acc).page_id)
       /\ find_one(store, [platform |-> Split(acc).platform,
                           page_id |-> Split(acc).page_id]) # 0
    THEN find_one(store, [platform |-> Split(acc).platform,
                          page_id |-> Split(acc).page_id])
    ELSE find_one(store, [platform |-> Split(acc).platform])

\* One pass of the loop; a key the result lacks is None here.
BackendResult(store, acc) ==
    IF BackendResolve(store, acc) # 0
    THEN [platform |-> Split(acc).platform,
          page_id |-> IF Truthy(Split(acc).page_id)
                      THEN Split(acc).page_id
                      ELSE store[BackendResolve(store, acc)].page_id,
          page_name |-> store[BackendResolve(store, acc)].page_name,
          status |-> "queued",
          detail |-> "Will publish using stored token"]
    ELSE [platform |-> Split(acc).platform,
          page_id |-> Split(acc).page_id,
          page_name |-> None,
          status |-> "error",
          detail |-> "No token found for platform/page"]

backend_publish_campaign ==
    /\ request.app = "backend"
    /\ LET payload == request.body IN
       IF /\ Truthy(payload.campaign_id)
          /\ get_document_by_id(campaigns, payload.campaign_id) = 0
       THEN reply' = [handler |-> "backend_publish_campaign",
                      status |-> 404, detail |-> "Campaign not found"]
       ELSE IF BackendAccounts(payload) = <<>>
            THEN reply' = [handler |-> "backend_publish_campaign",
                           status |-> 400,
                           detail |-> "No social accounts provided"]
            ELSE LET accounts == FirstFive(BackendAccounts(payload))
                 IN reply' = [handler |-> "backend_publish_campaign",
                              status |-> 200,
                              ok |-> TRUE,
                              results |-> [i \in DOMAIN accounts |->
                                  BackendResult(tokens, accounts[i])],
                              targets |-> BackendAccounts(payload),
                              used |-> [i \in DOMAIN accounts |->
                                  BackendResolve(tokens, accounts[i])]]
    /\ UNCHANGED <<streamVars, lastOp, tokens, campaigns, logs, request,
                   upserts>>

(***************************************************************************)
(* Publishing on its own: one request against one credential store and one *)
(* campaign collection.                                                    *)
(***************************************************************************)
Targets ==
    { [platform |-> "facebook", page_name |-> "A", access_token |-> None],
      [platform |-> "instagram", page_name |-> None, access_token |-> None],
      [platform |-> "facebook", page_name |-> None, access_token |-> "u"] }

TargetLists == UNION {[1 .. n -> Targets] : n \in 0 .. MaxTargets}

SixTargets ==
    [i \in 1 .. 6 |->
        IF i = 6
        THEN [platform |-> "instagram", page_name |-> None,
              access_token |-> None]
        ELSE [platform |-> "facebook", page_name |-> "B",
              access_token |-> None]]

\* The stored campaigns of src/main.py's application.
MainCampaigns ==
    << [id |-> "c1",
        social_accounts |-> List(<<
            [platform |-> "facebook", page_name |-> "B",
             access_token |-> None],
            [platform |-> "instagram", page_name |-> "C",
             access_token |-> "v"] >>)],
       [id |-> "c2", social_accounts |-> NullList],
       [id |-> "c3", social_accounts |-> List(SixTargets)] >>

MainRequests ==
    [app : {"main"},
     body : [campaign : [present : {TRUE},
                         social_accounts :
                             {NullList} \cup {List(l) : l \in TargetLists}],
             campaign_id : {None}]
            \cup
            [campaign : [present : {TRUE},
                         social_accounts : {NullList, List(SixTargets)}],
             campaign_id : {"c1", "c9"}]
            \cup
            [campaign : {NoCampaign},
             campaign_id : {None, "", "c1", "c2", "c3", "c9"}]]

BackendTargets == {<<"facebook", "p1">>, <<"instagram">>, <<"facebook", "p9">>}

BackendTargetLists == UNION {[1 .. n -> BackendTargets] : n \in 0 .. MaxTargets}

\* The stored campaigns of src/backend/main.py's application.
BackendCampaigns ==
    << [id |-> "c1",
        social_accounts |-> List(<< <<"facebook", "p2">>, <<"instagram">> >>)],
       [id |-> "c2", social_accounts |-> NullList],
       [id |-> "c3",
        social_accounts |-> List([i \in 1 .. 6 |->
            IF i = 6 THEN <<"instagram">> ELSE <<"facebook", "p1">>])] >>

BackendRequests ==
    [app : {"backend"},
     body : [campaign_id : {"c1"},
             social_accounts :
                 {NullList} \cup {List(l) : l \in BackendTargetLists}]
            \cup
            [campaign_id : {None, "", "c2", "c3", "c9"},
             social_accounts :
                 {NullList, List(<< <<"facebook", "p1">> >>)}]]

InitPublish ==
    /\ logs = <<>>
    /\ upserts = NoUpserts
    /\ \/ /\ request \in MainRequests
          /\ tokens \in Stores
          /\ campaigns = MainCampaigns
       \/ /\ request \in BackendRequests
          /\ tokens \in BackendStores
          /\ campaigns = BackendCampaigns

NextPublish ==
    \/ publish_campaign
    \/ backend_publish_campaign

InitPublishApp ==
    /\ InitStream
    /\ reply = NoReply
    /\ lastOp = NoOp
    /\ InitPublish

SpecPublish == InitPublishApp /\ [][NextPublish]_vars

(***************************************************************************)
(* upsert_account under concurrent requests.  Both applications declare    *)
(* the handler with a plain def, which FastAPI runs in a pool of worker    *)
(* threads: the calls of two requests interleave at the database           *)
(* operations, find_one first and update_one or insert_one later.  No      *)
(* document is deleted here, so the place of a document stands for its     *)
(* _id.                                                                    *)
(***************************************************************************)
\* existing = find_one(key_filter)
UpsertFind(r, body) ==
    /\ upserts[r].pc = "idle"
    /\ upserts' = [upserts EXCEPT ![r] =
           [pc |-> "found", body |-> body,
            existing |-> IF request.app = "main"
                         THEN find_one(tokens, KeyFilter(body))
                         ELSE find_one(tokens, BackendKeyFilter(body))]]
    /\ UNCHANGED <<streamVars, reply, lastOp, tokens, campaigns, logs,
                   request>>

\* if existing: update_one(...) else: create_document(...); return
UpsertWrite(r) ==
    /\ upserts[r].pc = "found"
    /\ tokens' = IF request.app = "main"
                 THEN WriteAccount(tokens, upserts[r].body,
                                   upserts[r].existing)
                 ELSE BackendWriteAccount(tokens, upserts[r].body,
                                          upserts[r].existing)
    /\ upserts' = [upserts EXCEPT ![r].pc = "done"]
    /\ reply' = [handler |-> "upsert_account", status |-> 200]
    /\ UNCHANGED <<streamVars, lastOp, campaigns, logs, request>>

\* The bodies of the concurrent calls: those of Bodies and one that names a
\* platform and no page.
UpsertBodies ==
    Bodies \cup
    { [platform |-> "facebook", page_id |-> None, page_name |-> None,
       access_token |-> "t9"] }

InitUpsert ==
    /\ InitStream
    /\ reply = NoReply
    /\ lastOp = NoOp
    /\ tokens = <<>>
    /\ campaigns = <<>>
    /\ logs = <<>>
    /\ request \in {[app |-> "main"], [app |-> "backend"]}
    /\ upserts = NoUpserts

NextUpsert ==
    \/ \E r \in 1 .. MaxUpserts : \E body \in UpsertBodies : UpsertFind(r, body)
    \/ \E r \in 1 .. MaxUpserts : UpsertWrite(r)

SpecUpsert == InitUpsert /\ [][NextUpsert]_vars

(***************************************************************************)
(* The registry on its own: the list operations the code applies to        *)
(* _listeners, applied to every registry the appends can build and to      *)
(* every queue, registered or not.                                         *)
(***************************************************************************)
RegistryQueues == 1 .. MaxQueues

\* The lists without a repeated entry: each queue is appended once, by the
\* generator that created it.
Registries ==
    UNION {{L \in [1 .. n -> RegistryQueues] :
               \A i, j \in 1 .. n : i # j => L[i] # L[j]} : n \in 0 .. MaxQueues}

\* _listeners.append(q), for a queue just created.
RegistryAppend(q) ==
    /\ q \notin Range(_listeners)
    /\ _listeners' = Append(_listeners, q)
    /\ lastOp' = [kind |-> "append", qs |-> <<q>>, before |-> _listeners,
                  raised |-> FALSE]
    /\ UNCHANGED <<queue, pc, evt, delivered, clientGone, tasks, published,
                   nextId, reply, pubVars,
                   broken, running>>

\* The finally block of a generator whose queue is q.
RegistryFinally(q) ==
    /\ _listeners' = FinallyRemove(_listeners, q).list
    /\ lastOp' = [kind |-> "finally", qs |-> <<q>>, before |-> _listeners,
                  raised |-> FinallyRemove(_listeners, q).raised]
    /\ UNCHANGED <<queue, pc, evt, delivered, clientGone, tasks, published,
                   nextId, reply, pubVars,
                   broken, running>>

\* The second loop of _notify over a list of dead queues.
RegistryDeadPass(dead) ==
    /\ _listeners' = RemoveDead(_listeners, dead).list
    /\ lastOp' = [kind |-> "dead", qs |-> dead, before |-> _listeners,
                  raised |-> RemoveDead(_listeners, dead).raised]
    /\ UNCHANGED <<queue, pc, evt, delivered, clientGone, tasks, published,
                   nextId, reply, pubVars,
                   broken, running>>

NextRegistry ==
    \/ \E q \in RegistryQueues : RegistryAppend(q)
    \/ \E q \in RegistryQueues : RegistryFinally(q)
    \/ \E q1, q2 \in RegistryQueues : RegistryDeadPass(<<q1, q2>>)

InitRegistry ==
    /\ _listeners \in Registries
    /\ InitSessions
    /\ reply = NoReply
    /\ lastOp = NoOp
    /\ InitNoPublish

SpecRegistry == InitRegistry /\ [][NextRegistry]_vars

(***************************************************************************)
(* The broadcast with failing puts: _notify run on every registry the      *)
(* appends can build, with the put of any of the queues made to raise.     *)
(***************************************************************************)
\* One call of _notify, with what it found and how it ended.
RegistryBroadcast ==
    /\ nextId < MaxEvents
    /\ nextId' = nextId + 1
    /\ _notify([type |-> "typing", id |-> nextId + 1])
    /\ lastOp' = [kind |-> "notify", qs |-> NotifyDead(_listeners),
                  before |-> _listeners,
                  raised |-> RemoveDead(_listeners,
                                        NotifyDead(_listeners)).raised]
    /\ UNCHANGED <<pc, evt, delivered, clientGone, tasks, reply, pubVars,
                   broken, running>>

InitFaulty ==
    /\ _listeners \in Registries
    /\ broken \in SUBSET RegistryQueues
    /\ queue = [q \in RegistryQueues |-> <<>>]
    /\ pc = [s \in Sessions |-> "idle"]
    /\ evt = [s \in Sessions |-> NoEvent]
    /\ delivered = [s \in Sessions |-> <<>>]
    /\ clientGone = [s \in Sessions |-> FALSE]
    /\ tasks = <<>>
    /\ published = <<>>
    /\ nextId = 0
    /\ running = {}
    /\ reply = NoReply
    /\ lastOp = NoOp
    /\ InitNoPublish

NextFaulty ==
    \/ RegistryBroadcast
    \/ \E q \in RegistryQueues : RegistryAppend(q)

SpecFaulty == InitFaulty /\ [][NextFaulty]_vars

(***************************************************************************)
(* _notify one await at a time.  The put of an unbounded queue does not    *)
(* suspend, so the event loop runs the whole coroutine in one go; here     *)
(* every `await q.put(event)` is a point where the sessions may run, which *)
(* covers any scheduling of the broadcast against the registrations.  A    *)
(* call is [e, snapshot, i, dead, done, raised]: its event, the copy       *)
(* list(_listeners) it iterates, the place of the next put, the queues     *)
(* collected so far, and whether and how it has returned.                  *)
(***************************************************************************)
\* The loop reading the list itself in place of the copy.
NextTargetLive(call, L) ==
    IF call.i <= Len(L) THEN L[call.i] ELSE call.snapshot[call.i]

\* for q in list(_listeners): the queue of the next put.
NextTarget(call, L) == call.snapshot[call.i]

\* dead = []; the copy list(_listeners) is taken as the loop is entered.
NotifyStart ==
    /\ nextId < MaxEvents
    /\ nextId' = nextId + 1
    /\ published' = Append(published, [type |-> "typing", id |-> nextId + 1])
    /\ running' = running \cup
           {[e |-> [type |-> "typing", id |-> nextId + 1],
             snapshot |-> _listeners, i |-> 1, dead |-> <<>>,
             done |-> FALSE, raised |-> FALSE]}
    /\ UNCHANGED <<_listeners, queue, pc, evt, delivered, clientGone, tasks,
                   reply, lastOp, pubVars, broken>>

\* The call of _notify for the event numbered id.
CallOf(id) == CHOOSE call \in running : call.e.id = id

\* try: await q.put(event) except Exception: dead.append(q)
NotifyPut(id) ==
    LET call == CallOf(id) IN
    /\ \E c \in running : c.e.id = id
    /\ ~call.done
    /\ call.i <= Len(call.snapshot)
    /\ ~PutWaits(queue[NextTarget(call, _listeners)])
    /\ queue' = IF PutRaises(NextTarget(call, _listeners))
                THEN queue
                ELSE QueuePut(queue, NextTarget(call, _listeners), call.e)
    /\ running' = (running \ {call}) \cup
           {[call EXCEPT
                !.i = @ + 1,
                !.dead = IF PutRaises(NextTarget(call, _listeners))
                         THEN Append(@, NextTarget(call, _listeners))
                         ELSE @]}
    /\ UNCHANGED <<_listeners, pc, evt, delivered, clientGone, tasks,
                   published, nextId, reply, lastOp, pubVars, broken>>

\* for q in dead: try: _listeners.remove(q) except ValueError: pass; return
NotifyReturn(id) ==
    LET call == CallOf(id) IN
    /\ \E c \in running : c.e.id = id
    /\ ~call.done
    /\ call.i > Len(call.snapshot)
    /\ _listeners' = RemoveDead(_listeners, call.dead).list
    /\ running' = (running \ {call}) \cup
           {[call EXCEPT !.done = TRUE,
                         !.raised = RemoveDead(_listeners, call.dead).raised]}
    /\ reply' = [handler |-> "typing_event", status |-> 200]
    /\ UNCHANGED <<queue, pc, evt, delivered, clientGone, tasks, published,
                   nextId, lastOp, pubVars, broken>>

\* The heartbeat touches neither the registry nor a queue and is left out.
NextInterleaved ==
    \/ \E s \in Sessions : Connect(s)
    \/ \E s \in Sessions : Resume(s)
    \/ \E s \in Sessions : CheckDisconnected(s)
    \/ \E s \in Sessions : CheckConnected(s)
    \/ \E s \in Sessions : GetEvent(s)
    \/ \E s \in Sessions : Cancel(s)
    \/ \E s \in Sessions : GenExit(s)
    \/ \E s \in Sessions : ClientDisconnect(s)
    \/ NotifyStart
    \/ \E id \in 1 .. MaxEvents : NotifyPut(id)
    \/ \E id \in 1 .. MaxEvents : NotifyReturn(id)

SpecInterleaved == Init /\ [][NextInterleaved]_vars

(***************************************************************************)
(* The stream under the scheduling the event loop and the consumer give    *)
(* it: the consumer of an open stream asks for the next frame, an await    *)
(* that can return does return, and the timeout of wait_for elapses.       *)
(***************************************************************************)
LiveStream ==
    /\ SpecStream
    /\ \A s \in Sessions :
          /\ WF_vars(Resume(s))
          /\ WF_vars(CheckConnected(s))
          /\ WF_vars(CheckDisconnected(s))
          /\ WF_vars(GetEvent(s))
          /\ WF_vars(Timeout(s))

Registered(s) == s \in Range(_listeners)

\* The place of event e in the order of the _notify calls.
Pos(e) == IndexOf(published, e)

LastPublished == published[Len(published)]

(***************************************************************************)
(* C2: a call of _notify appends exactly one copy of its event to the      *)
(* queue of every subscriber registered when it is called and leaves the   *)
(* queue of every other subscriber (unregistered before the call) as it    *)
(* was.                                                                    *)
(***************************************************************************)
C2_NotifyFanOut ==
    [][published' # published =>
        \A s \in Sessions :
            queue'[s] = IF Registered(s)
                        THEN Append(queue[s], published'[Len(published')])
                        ELSE queue[s]]_vars

\* An event has gone to the queue of a registered subscriber and not to the
\* subscriber that had unregistered before.
C2_Witness ==
    /\ published # <<>>
    /\ \E s, t \in Sessions :
          /\ Registered(s)
          /\ queue[s] # <<>>
          /\ queue[s][Len(queue[s])] = LastPublished
          /\ pc[t] = "closed"
          /\ LastPublished \notin Range(queue[t]) \cup Range(delivered[t])

(***************************************************************************)
(* C3: a session yields the message frames of the events delivered to it   *)
(* in the order of the _notify calls, and the _notify calls of the tasks   *)
(* that handlers created run in the order the handlers created them.       *)
(***************************************************************************)
C3_DeliveryOrder ==
    /\ \A s \in Sessions :
          \A i, j \in DOMAIN delivered[s] :
              i < j => Pos(delivered[s][i]) < Pos(delivered[s][j])
    /\ \A i, j \in DOMAIN published :
          /\ i < j
          /\ published[i].type = "comment_created"
          /\ published[j].type = "comment_created"
          => published[i].id < published[j].id
    /\ \A s \in Sessions :
          \A i, j \in DOMAIN delivered[s] :
              /\ delivered[s][i].type = "comment_created"
              /\ delivered[s][j].type = "comment_created"
              /\ delivered[s][i].id < delivered[s][j].id
              => i < j

\* A session has yielded two events, one of them published by a task.
C3_Witness ==
    \E s \in Sessions :
        /\ Len(delivered[s]) >= 2
        /\ delivered[s][1].type = "comment_created"
        /\ pc[s] = "yield_msg"

(***************************************************************************)
(* C4: once a session has terminated, by whichever exit, its queue is not  *)
(* in _listeners, whatever the other sessions do meanwhile.                *)
(***************************************************************************)
C4_ClosedUnregistered ==
    \A s \in Sessions : pc[s] = "closed" => ~Registered(s)

\* A session whose client had dropped has terminated while the other one is
\* registered.
C4_Witness ==
    \E s, t \in Sessions :
        /\ pc[s] = "closed"
        /\ clientGone[s]
        /\ Registered(t)
        /\ pc[t] = "wait"

(***************************************************************************)
(* C5: removing a queue from the registry never raises and leaves the      *)
(* other entries in their order; removing a queue that is not there (it    *)
(* was removed before, by either path, or never registered) leaves the     *)
(* registry as it was.                                                     *)
(***************************************************************************)
C5_IdempotentRemove ==
    lastOp.kind \in {"finally", "dead"} =>
        /\ ~lastOp.raised
        /\ _listeners =
               SelectSeq(lastOp.before, LAMBDA x : x \notin Range(lastOp.qs))
        /\ Range(lastOp.qs) \cap Range(lastOp.before) = {} =>
               _listeners = lastOp.before

\* The finally block has run for a queue that was not registered, with two
\* other queues in the registry.
C5_Witness ==
    /\ lastOp.kind = "finally"
    /\ lastOp.qs[1] \notin Range(lastOp.before)
    /\ Len(lastOp.before) >= 2
    /\ _listeners = lastOp.before

(***************************************************************************)
(* C6: the first frame of a session is hello; a ping is yielded only when  *)
(* the wait has elapsed with the queue empty; and a session that stays     *)
(* open and never gets an event yields ping frames again and again.        *)
(***************************************************************************)
C6_Heartbeat ==
    /\ [][\A s \in Sessions :
            /\ pc[s] = "idle" /\ pc'[s] # "idle" => pc'[s] = "yield_hello"
            /\ pc'[s] = "yield_ping" /\ pc[s] # "yield_ping" =>
                   pc[s] = "wait" /\ queue[s] = <<>>]_vars
    /\ \A s \in Sessions :
          (<>[](/\ pc[s] \notin {"idle", "closed"}
                /\ ~clientGone[s]
                /\ queue[s] = <<>>
                /\ delivered[s] = <<>>))
          => []<>(pc[s] = "yield_ping")

\* A session that got no event is suspended on a ping frame.
C6_Witness ==
    \E s \in Sessions :
        /\ pc[s] = "yield_ping"
        /\ YieldedFrame(s) = PingFrame
        /\ delivered[s] = <<>>
        /\ queue[s] = <<>>
        /\ ~clientGone[s]


\* A publish request answered with the results of src/main.py.
MainReplied == reply.handler = "publish_campaign" /\ reply.status = 200

\* A publish request answered with the results of src/backend/main.py.
BackendReplied ==
    reply.handler = "backend_publish_campaign" /\ reply.status = 200

(***************************************************************************)
(* C1: a publish request whose campaign carries n targets gets exactly     *)
(* min(n, 5) results, result i has the platform of target i of the         *)
(* original list, and only the targets from place 6 on are dropped.  In    *)
(* src/main.py the list is the inline campaign's, or the stored            *)
(* campaign's when there is no inline campaign; a request with a campaign  *)
(* is always answered with results.                                        *)
(***************************************************************************)
C1_Truncation ==
    /\ reply.handler = "publish_campaign" =>
           LET body == request.body
               stored == {c \in Range(campaigns) : c.id = body.campaign_id}
               original ==
                   IF body.campaign.present
                   THEN OrEmpty(body.campaign.social_accounts)
                   ELSE OrEmpty((CHOOSE c \in stored : TRUE).social_accounts)
           IN IF body.campaign.present \/ stored # {}
              THEN /\ reply.status = 200
                   /\ Len(reply.results) = Min(Len(original), 5)
                   /\ \A i \in 1 .. Len(reply.results) :
                          reply.results[i].platform = original[i].platform
              ELSE reply.status \in {400, 404}
    /\ BackendReplied =>
           /\ Len(reply.results) = Min(Len(reply.targets), 5)
           /\ \A i \in 1 .. Len(reply.results) :
                  reply.results[i].platform = reply.targets[i][1]

C1_Witness ==
    /\ MainReplied
    /\ request.body.campaign.present
    /\ Len(OrEmpty(request.body.campaign.social_accounts)) > 5
    /\ Len(reply.results) = 5
    /\ reply.results[5].platform
           = request.body.campaign.social_accounts.items[5].platform

(***************************************************************************)
(* C7: a target without an access token whose page hint is exactly that of *)
(* a stored credential of the same platform is given that credential,      *)
(* whatever other credentials of the platform are stored and wherever in   *)
(* the store they are.  The hint is the page name in src/main.py and the   *)
(* page id in src/backend/main.py.                                         *)
(***************************************************************************)
C7_ExactMatchPreferred ==
    /\ MainReplied =>
           \A i \in DOMAIN reply.results :
               LET t == reply.targets[i] IN
               ( /\ ~Truthy(t.access_token)
                 /\ Truthy(t.page_name)
                 /\ \E k \in DOMAIN tokens :
                        /\ tokens[k].platform = t.platform
                        /\ tokens[k].page_name = t.page_name )
               => /\ reply.used[i] \in DOMAIN tokens
                  /\ tokens[reply.used[i]].platform = t.platform
                  /\ tokens[reply.used[i]].page_name = t.page_name
                  /\ reply.accounts[i].access_token
                         = tokens[reply.used[i]].access_token
    /\ BackendReplied =>
           \A i \in DOMAIN reply.results :
               LET t == reply.targets[i] IN
               ( /\ Len(t) > 1
                 /\ \E k \in DOMAIN tokens :
                        /\ tokens[k].platform = t[1]
                        /\ tokens[k].page_id = t[2] )
               => /\ reply.used[i] \in DOMAIN tokens
                  /\ tokens[reply.used[i]].platform = t[1]
                  /\ tokens[reply.used[i]].page_id = t[2]

C7_Witness ==
    /\ MainReplied
    /\ \E i \in DOMAIN reply.results :
           /\ ~Truthy(reply.targets[i].access_token)
           /\ Truthy(reply.targets[i].page_name)
           /\ reply.used[i] \in DOMAIN tokens
           /\ tokens[reply.used[i]].page_name = reply.targets[i].page_name
           /\ \E k \in 1 .. (reply.used[i] - 1) :
                  /\ tokens[k].platform = reply.targets[i].platform
                  /\ tokens[k].page_name # reply.targets[i].page_name

(***************************************************************************)
(* C8: a target without an access token whose page hint is that of no      *)
(* stored credential is given the first stored credential of its platform  *)
(* when there is one, and so is not reported as missing a token.           *)
(* src/backend/main.py does this; src/main.py looks the credential up by   *)
(* platform and page name only and leaves the target as it is.             *)
(***************************************************************************)
C8_FallbackToPlatform ==
    /\ MainReplied =>
           \A i \in DOMAIN reply.results :
               LET t == reply.targets[i] IN
               ( /\ ~Truthy(t.access_token)
                 /\ Truthy(t.page_name)
                 /\ \A k \in DOMAIN tokens :
                        ~(/\ tokens[k].platform = t.platform
                          /\ tokens[k].page_name = t.page_name)
                 /\ \E k \in DOMAIN tokens : tokens[k].platform = t.platform )
               => /\ reply.used[i] \in DOMAIN tokens
                  /\ tokens[reply.used[i]].platform = t.platform
                  /\ \A k \in 1 .. (reply.used[i] - 1) :
                         tokens[k].platform # t.platform
    /\ BackendReplied =>
           \A i \in DOMAIN reply.results :
               LET t == reply.targets[i] IN
               ( /\ Len(t) > 1
                 /\ \A k \in DOMAIN tokens :
                        ~(tokens[k].platform = t[1] /\ tokens[k].page_id = t[2])
                 /\ \E k \in DOMAIN tokens : tokens[k].platform = t[1] )
               => /\ reply.used[i] \in DOMAIN tokens
                  /\ tokens[reply.used[i]].platform = t[1]
                  /\ \A k \in 1 .. (reply.used[i] - 1) :
                         tokens[k].platform # t[1]
                  /\ reply.results[i].status = "queued"

C8_Witness ==
    /\ MainReplied
    /\ \E i \in DOMAIN reply.results :
           /\ ~Truthy(reply.targets[i].access_token)
           /\ Truthy(reply.targets[i].page_name)
           /\ \E k \in DOMAIN tokens :
                  /\ tokens[k].platform = reply.targets[i].platform
                  /\ Truthy(tokens[k].access_token)
           /\ reply.used[i] = 0
           /\ reply.results[i].status = "error"
           /\ reply.results[i].message = "Missing access token for this page"

(***************************************************************************)
(* C9: in src/main.py a target without an access token whose platform has  *)
(* no stored credential gets the result error, "Missing access token for   *)
(* this page", every target after it in the cut list still gets its own    *)
(* result, and the request is answered with results all the same.          *)
(***************************************************************************)
C9_MissingCredential ==
    ( /\ reply.handler = "publish_campaign"
      /\ request.body.campaign.present ) =>
        /\ reply.status = 200
        /\ LET original == OrEmpty(request.body.campaign.social_accounts)
               cut == Min(Len(original), 5)
           IN \A i \in 1 .. cut :
                  ( /\ ~Truthy(original[i].access_token)
                    /\ \A k \in DOMAIN tokens :
                           tokens[k].platform # original[i].platform )
                  => /\ i \in DOMAIN reply.results
                     /\ reply.results[i].status = "error"
                     /\ reply.results[i].message
                            = "Missing access token for this page"
                     /\ \A j \in (i + 1) .. cut :
                            /\ j \in DOMAIN reply.results
                            /\ reply.results[j].platform = original[j].platform
                            /\ reply.results[j].status \in {"success", "error"}

C9_Witness ==
    /\ MainReplied
    /\ request.body.campaign.present
    /\ Len(reply.results) >= 2
    /\ ~Truthy(request.body.campaign.social_accounts.items[1].access_token)
    /\ \A k \in DOMAIN tokens :
           tokens[k].platform
               # request.body.campaign.social_accounts.items[1].platform
    /\ reply.results[1].status = "error"
    /\ reply.results[1].message = "Missing access token for this page"
    /\ reply.results[2].status = "success"

(***************************************************************************)
(* C10: every response of src/main.py's publish has the summary            *)
(* "Prepared s/t posts for publishing", t the number of results, which is  *)
(* min(n, 5) for n targets, and s the number of results with status        *)
(* success, which is the number of processed targets that hold a non-empty *)
(* access token after the enrichment; s <= t <= 5.                         *)
(***************************************************************************)
C10_Summary ==
    MainReplied =>
        LET t == Len(reply.results)
            s == Cardinality({i \in DOMAIN reply.results :
                                  reply.results[i].status = "success"})
            numeral == <<"0", "1", "2", "3", "4", "5">>
        IN /\ s <= t
           /\ t <= 5
           /\ t = Min(Len(reply.targets), 5)
           /\ s = Cardinality({i \in DOMAIN reply.accounts :
                                   Truthy(reply.accounts[i].access_token)})
           /\ reply.summary = "Prepared " \o numeral[s + 1] \o "/"
                                  \o numeral[t + 1] \o " posts for publishing"

C10_Witness ==
    /\ MainReplied
    /\ Len(reply.targets) = 3
    /\ reply.summary = "Prepared 2/3 posts for publishing"
    /\ \E i \in 1 .. 3 : reply.results[i].status = "error"

(***************************************************************************)
(* C11: a publish request that names a stored campaign by identifier (and  *)
(* carries no inline campaign) is answered 404 exactly when no stored      *)
(* campaign has that identifier: an identifier that is stored is never     *)
(* answered 404, one that is not stored is never answered with results.    *)
(***************************************************************************)
C11_NotFound ==
    /\ ( /\ reply.handler = "publish_campaign"
         /\ ~request.body.campaign.present
         /\ Truthy(request.body.campaign_id) ) =>
           LET stored == \E c \in Range(campaigns) :
                             c.id = request.body.campaign_id
           IN /\ (reply.status = 404) <=> ~stored
              /\ stored => reply.status = 200
    /\ ( /\ reply.handler = "backend_publish_campaign"
         /\ Truthy(request.body.campaign_id) ) =>
           LET stored == \E c \in Range(campaigns) :
                             c.id = request.body.campaign_id
           IN /\ (reply.status = 404) <=> ~stored
              /\ reply.status = 200 => stored

C11_Witness ==
    /\ reply.handler = "publish_campaign"
    /\ ~request.body.campaign.present
    /\ request.body.campaign_id = "c9"
    /\ \A c \in Range(campaigns) : c.id # "c9"
    /\ reply.status = 404
    /\ logs = <<>>

(***************************************************************************)
(* C12: a publish request with neither an inline campaign nor a campaign   *)
(* identifier is answered 400, and a request with inline target accounts   *)
(* and no campaign identifier is not answered 400.  The second half fails  *)
(* in src/backend/main.py, where the inline accounts are read only when a  *)
(* stored campaign was fetched.                                            *)
(***************************************************************************)
C12_BadRequest ==
    /\ reply.handler = "publish_campaign" =>
           /\ ( /\ ~request.body.campaign.present
                /\ ~Truthy(request.body.campaign_id) ) => reply.status = 400
           /\ ( /\ request.body.campaign.present
                /\ OrEmpty(request.body.campaign.social_accounts) # <<>>
                /\ ~Truthy(request.body.campaign_id) ) => reply.status # 400
    /\ reply.handler = "backend_publish_campaign" =>
           /\ ( /\ OrEmpty(request.body.social_accounts) = <<>>
                /\ ~Truthy(request.body.campaign_id) ) => reply.status = 400
           /\ ( /\ OrEmpty(request.body.social_accounts) # <<>>
                /\ ~Truthy(request.body.campaign_id) ) => reply.status # 400

C12_Witness ==
    /\ reply.handler = "backend_publish_campaign"
    /\ request.body.campaign_id = None
    /\ request.body.social_accounts = List(<< <<"facebook", "p1">> >>)
    /\ reply.status = 400
    /\ reply.detail = "No social accounts provided"

(***************************************************************************)
(* C13: a publish request whose resolved campaign has no target accounts   *)
(* (social_accounts empty or absent) is answered with a 400 client error   *)
(* and not with a results array.  src/backend/main.py does so;             *)
(* src/main.py answers 200 with an empty results array.                    *)
(***************************************************************************)
C13_NoTargets ==
    /\ reply.handler = "publish_campaign" =>
           LET body == request.body
               stored == {c \in Range(campaigns) : c.id = body.campaign_id}
               resolved == body.campaign.present \/ stored # {}
               targets ==
                   IF body.campaign.present
                   THEN OrEmpty(body.campaign.social_accounts)
                   ELSE OrEmpty((CHOOSE c \in stored : TRUE).social_accounts)
           IN (resolved /\ targets = <<>>) => reply.status = 400
    /\ reply.handler = "backend_publish_campaign" =>
           LET payload == request.body
               stored == {c \in Range(campaigns) : c.id = payload.campaign_id}
           IN ( /\ stored # {}
                /\ OrEmpty(payload.social_accounts) = <<>>
                /\ OrEmpty((CHOOSE c \in stored : TRUE).social_accounts)
                       = <<>> )
              => reply.status = 400

C13_Witness ==
    /\ MainReplied
    /\ request.body.campaign.present
    /\ OrEmpty(request.body.campaign.social_accounts) = <<>>
    /\ reply.results = <<>>
    /\ reply.summary = "Prepared 0/0 posts for publishing"
    /\ Len(logs) = 1

(***************************************************************************)
(* C14: a publish request whose campaign is resolved and has at least one  *)
(* target is answered 200 with one result per processed target, also when  *)
(* every target is classified error: a target's failure never makes the    *)
(* response an error.                                                      *)
(***************************************************************************)
C14_PartialFailureIsSuccess ==
    /\ reply.handler = "publish_campaign" =>
           LET body == request.body
               stored == {c \in Range(campaigns) : c.id = body.campaign_id}
               resolved == body.campaign.present \/ stored # {}
               targets ==
                   IF body.campaign.present
                   THEN OrEmpty(body.campaign.social_accounts)
                   ELSE OrEmpty((CHOOSE c \in stored : TRUE).social_accounts)
           IN (resolved /\ targets # <<>>) =>
                  /\ reply.status = 200
                  /\ DOMAIN reply.results = 1 .. Min(Len(targets), 5)
                  /\ \A i \in DOMAIN reply.results :
                         reply.results[i].status \in {"success", "error"}
    /\ reply.handler = "backend_publish_campaign" =>
           LET payload == request.body
               stored == {c \in Range(campaigns) : c.id = payload.campaign_id}
               targets ==
                   IF OrEmpty(payload.social_accounts) # <<>>
                   THEN OrEmpty(payload.social_accounts)
                   ELSE OrEmpty((CHOOSE c \in stored : TRUE).social_accounts)
           IN (stored # {} /\ targets # <<>>) =>
                  /\ reply.status = 200
                  /\ reply.ok
                  /\ DOMAIN reply.results = 1 .. Min(Len(targets), 5)
                  /\ \A i \in DOMAIN reply.results :
                         reply.results[i].status \in {"queued", "error"}

C14_Witness ==
    /\ MainReplied
    /\ Len(reply.results) >= 2
    /\ \A i \in DOMAIN reply.results : reply.results[i].status = "error"
    /\ reply.summary = "Prepared 0/2 posts for publishing"

(***************************************************************************)
(* C15: a publish call that returns a response appends exactly one log     *)
(* record, of type "publish", whose results are the results returned, in   *)
(* the same order; a call that fails with 400 or 404 appends none.         *)
(* src/main.py does so through the storage module; src/backend/main.py     *)
(* returns its results and writes no log record.                           *)
(***************************************************************************)
C15_PublishLog ==
    [][ (reply' # reply \/ logs' # logs) =>
            IF reply'.status = 200
            THEN logs' = Append(logs, [type |-> "publish",
                                       results |-> reply'.results])
            ELSE reply'.status \in {400, 404} /\ logs' = logs ]_vars

C15_Witness ==
    /\ BackendReplied
    /\ reply.results # <<>>
    /\ logs = <<>>

(***************************************************************************)
(* C16: every mutating operation that completes (a comment or chat         *)
(* message added, edited or deleted, a top post created with a campaign, a *)
(* typing event posted) has its event enqueued to every subscriber         *)
(* registered at that time, and the request does not fail because of the   *)
(* broadcast.  At the handler's step: the reply is 200 and the event is    *)
(* either in every registered queue or in a task that will put it there.   *)
(* The handlers that call asyncio.create_task are plain functions, run in  *)
(* a worker thread with no running loop: add_post_comment stores the       *)
(* comment and fails, create_campaign swallows the error and sends no      *)
(* event.                                                                  *)
(***************************************************************************)
C16_MutationBroadcasts ==
    [][ nextId' # nextId =>
            /\ reply'.status = 200
            /\ \/ \E k \in DOMAIN tasks' :
                      /\ tasks'[k].id = nextId'
                      /\ k \notin DOMAIN tasks
               \/ /\ Len(published') = Len(published) + 1
                  /\ published'[Len(published')].id = nextId'
                  /\ \A s \in Range(_listeners) :
                         queue'[s] = Append(queue[s],
                                            published'[Len(published')]) ]_vars

C16_Witness ==
    /\ reply.handler = "add_post_comment"
    /\ reply.status = 500
    /\ nextId = 1
    /\ _listeners # <<>>
    /\ tasks = <<>>
    /\ published = <<>>
    /\ \A s \in Sessions : queue[s] = <<>>

C18_DeadSubscriberDropped ==
    [][ published' # published =>
            LET e == published'[Len(published')] IN
            /\ lastOp'.kind = "notify"
            /\ ~lastOp'.raised
            /\ \A q \in Range(_listeners) :
                   IF q \in broken
                   THEN q \notin Range(_listeners') /\ queue'[q] = queue[q]
                   ELSE q \in Range(_listeners')
                            /\ queue'[q] = Append(queue[q], e)
            /\ _listeners' = SelectSeq(_listeners, LAMBDA q : q \notin broken)
       ]_vars

\* A broadcast has dropped the second of three subscribers, whose put
\* failed, and served the first and the third.
C18_Witness ==
    /\ lastOp.kind = "notify"
    /\ Len(lastOp.before) = 3
    /\ lastOp.before[2] \in broken
    /\ lastOp.qs = <<lastOp.before[2]>>
    /\ _listeners = <<lastOp.before[1], lastOp.before[3]>>
    /\ queue[lastOp.before[2]] = <<>>
    /\ Len(published) = 1
    /\ \A i \in 1 .. 2 : queue[_listeners[i]] = published

(***************************************************************************)
(* C19: however the sessions' registering and unregistering interleave     *)
(* with the broadcasts in progress, every broadcast delivers its event     *)
(* exactly once to every subscriber of the copy of the registry it took    *)
(* when it started and to nobody else: no duplicate, no member skipped, no *)
(* exception from the registry changing under the loop, and nothing for a  *)
(* subscriber added after the copy was taken.  Checked with a switch       *)
(* allowed at every await of _notify.                                      *)
(***************************************************************************)
C19_SnapshotDelivery ==
    \A call \in running :
        LET served == {call.snapshot[k] : k \in 1 .. (call.i - 1)} IN
        /\ ~call.raised
        /\ call.done => served = Range(call.snapshot)
        /\ \A s \in Sessions :
               Cardinality({k \in DOMAIN (delivered[s] \o queue[s]) :
                                (delivered[s] \o queue[s])[k] = call.e})
                   = IF s \in served THEN 1 ELSE 0

\* A broadcast that started with s alone registered has returned; t
\* registered while it was in progress and has received nothing, s has
\* unregistered meanwhile and still got the event.
C19_Witness ==
    \E call \in running :
        \E s, t \in Sessions :
            /\ call.done
            /\ call.snapshot = <<s>>
            /\ s # t
            /\ _listeners = <<t>>
            /\ pc[s] = "closed"
            /\ queue[s] = <<call.e>>
            /\ delivered[t] \o queue[t] = <<>>
            /\ Len(published) = 1

(***************************************************************************)
(* C20: after any calls of upsert_account, two calls for the same key      *)
(* whose find and insert interleave included, the credential store holds   *)
(* at most one credential per effective key: the platform with the page    *)
(* id, else the platform with the page name, else the platform alone.  The *)
(* handler finds and then writes in two database operations with nothing   *)
(* to make them one, so two calls that both find nothing both insert.      *)
(***************************************************************************)
C20_OneCredentialPerKey ==
    LET key(doc) ==
            IF Truthy(doc.page_id)
            THEN <<doc.platform, "page_id", doc.page_id>>
            ELSE IF Truthy(doc.page_name)
                 THEN <<doc.platform, "page_name", doc.page_name>>
                 ELSE <<doc.platform>>
    IN \A i, j \in DOMAIN tokens : i # j => key(tokens[i]) # key(tokens[j])

\* Two calls with the same body have both found nothing and both inserted.
C20_Witness ==
    /\ \A r \in 1 .. 2 : upserts[r].pc = "done" /\ upserts[r].existing = 0
    /\ upserts[1].body = upserts[2].body
    /\ tokens = <<upserts[1].body, upserts[2].body>>

(***************************************************************************)
(* C21: once the client of a session has disconnected, the session         *)
(* eventually leaves its loop and is closed with its queue unregistered,   *)
(* whether or not another event is published; and from the disconnect on   *)
(* the session yields no further message or ping frame.  The generator     *)
(* asks request.is_disconnected() at the top of the loop only: a client    *)
(* that drops while the generator is inside wait_for(q.get(), timeout=15)  *)
(* is still handed the next event or the next ping.                        *)
(***************************************************************************)
C21_DisconnectEndsSession ==
    /\ \A s \in Sessions :
          clientGone[s] ~> (pc[s] = "closed" /\ ~Registered(s))
    /\ [][\A s \in Sessions :
            clientGone[s] =>
                ~(/\ pc'[s] \in {"yield_msg", "yield_ping"}
                  /\ pc[s] # pc'[s])]_vars

\* The client of a session has gone while the generator is inside
\* wait_for(q.get(), timeout=15) with its queue empty: the timeout is the
\* generator's next step, and it yields a ping.
C21_Witness ==
    \E s \in Sessions :
        /\ clientGone[s]
        /\ pc[s] = "wait"
        /\ queue[s] = <<>>
        /\ ENABLED Timeout(s)

(***************************************************************************)
(* C22: delivery is at most once and nothing is replayed.  A session       *)
(* yields an event as a message frame at most once; it never yields an     *)
(* event published before it registered: it registers with an empty queue  *)
(* and nothing yielded, an event enters a queue only in the _notify call    *)
(* that publishes it and only the queue of a session registered then, and   *)
(* a session yields from the head of its own queue only; and what is still  *)
(* in the queue of a session that has exited is yielded neither by that     *)
(* session nor by one that registers later.                                 *)
(***************************************************************************)
C22_AtMostOnceNoReplay ==
    /\ [](\A s \in Sessions :
            /\ \A i, j \in DOMAIN delivered[s] :
                   i # j => delivered[s][i] # delivered[s][j]
            /\ Range(delivered[s]) \cap Range(queue[s]) = {}
            /\ Range(delivered[s]) \cup Range(queue[s]) \subseteq
                   Range(published))
    /\ [][\A s \in Sessions :
            /\ ~Registered(s) /\ Registered(s)' =>
                   /\ queue'[s] = <<>>
                   /\ delivered'[s] = <<>>
                   /\ \A t \in Sessions :
                          pc[t] = "closed" =>
                              Range(queue[t]) \subseteq Range(published)
            /\ \A e \in Range(queue'[s]) \ Range(queue[s]) :
                   /\ e \notin Range(published)
                   /\ e \in Range(published')
                   /\ Registered(s)
            /\ delivered'[s] # delivered[s] =>
                   /\ queue[s] # <<>>
                   /\ delivered'[s] = Append(delivered[s], Head(queue[s]))
                   /\ queue'[s] = Tail(queue[s])
            /\ pc[s] = "closed" =>
                   /\ pc'[s] = "closed"
                   /\ delivered'[s] = delivered[s]
                   /\ queue'[s] = queue[s]]_vars

\* A session has exited with the first event still in its queue; another
\* session, registered after that event was published, has yielded the second
\* event and not the first.
C22_Witness ==
    \E s, t \in Sessions :
        /\ s # t
        /\ Len(published) = 2
        /\ pc[s] = "closed"
        /\ queue[s] = <<published[1]>>
        /\ delivered[s] = <<>>
        /\ pc[t] = "yield_msg"
        /\ delivered[t] = <<published[2]>>
        /\ queue[t] = <<>>

(***************************************************************************)
(* C23: all subscribers see one order of events.  Whatever two events two  *)
(* sessions have both received, in their queues or already yielded, they   *)
(* have received them in the same relative order: a call of _notify puts   *)
(* its event into every queue of its snapshot with no suspension between   *)
(* the puts, so two broadcasts never take turns.                           *)
(***************************************************************************)
C23_GlobalOrder ==
    \A s, t \in Sessions :
        LET rs == delivered[s] \o queue[s]
            rt == delivered[t] \o queue[t]
        IN \A a, b \in Range(rs) \cap Range(rt) :
               IndexOf(rs, a) < IndexOf(rs, b) =>
                   IndexOf(rt, a) < IndexOf(rt, b)

\* Two sessions have both received the same two events, one of them has
\* yielded both and the other has both still waiting.
C23_Witness ==
    \E s, t \in Sessions :
        /\ s # t
        /\ Len(published) = 2
        /\ delivered[s] = published
        /\ queue[t] = published
        /\ delivered[t] = <<>>

(***************************************************************************)
(* C24: a publish request of src/main.py that carries both an inline       *)
(* campaign and a campaign_id is served from the inline campaign alone.    *)
(* The stored campaigns are not searched: the request is answered 200      *)
(* whether or not campaign_id names a stored campaign, there is one result *)
(* for each of the first FanOutCap inline targets, in their order and on   *)
(* their platforms, and the response carries the campaign_id as it came.   *)
(***************************************************************************)
C24_InlineCampaignWins ==
    /\ reply.handler = "publish_campaign"
    /\ request.app = "main"
    /\ request.body.campaign.present
    /\ Truthy(request.body.campaign_id)
    => LET inline == IF request.body.campaign.social_accounts.null
                     THEN <<>>
                     ELSE request.body.campaign.social_accounts.items
       IN /\ reply.status = 200
          /\ reply.campaign_id = request.body.campaign_id
          /\ Len(reply.results) = Min(Len(inline), FanOutCap)
          /\ \A i \in DOMAIN reply.results :
                 reply.results[i].platform = inline[i].platform

\* A request with six inline targets and a campaign_id that names no stored
\* campaign has been answered 200 with five results and that campaign_id.
C24_Witness ==
    /\ MainReplied
    /\ request.body.campaign.present
    /\ request.body.campaign.social_accounts = List(SixTargets)
    /\ request.body.campaign_id = "c9"
    /\ FindCampaign(campaigns, "c9") = 0
    /\ reply.campaign_id = "c9"
    /\ Len(reply.results) = FanOutCap

(***************************************************************************)
(* C25: upsert_account creates or changes only the credential stored under *)
(* the effective key of its own request (the platform with the page id,    *)
(* else with the page name, else the platform alone).  The write of a call *)
(* leaves the page_id, page_name and access_token of every credential      *)
(* stored under another key as they were, and adds at most one credential. *)
(* The filter of a request that names no page is the platform alone, and   *)
(* find_one answers it with the first credential of that platform, a       *)
(* page-specific one included: that credential is the one overwritten.     *)
(***************************************************************************)
C25_OtherKeysUntouched ==
    [][\A r \in 1 .. MaxUpserts :
         upserts[r].pc = "found" /\ upserts'[r].pc = "done" =>
             LET key(doc) ==
                     IF Truthy(doc.page_id)
                     THEN <<doc.platform, "page_id", doc.page_id>>
                     ELSE IF Truthy(doc.page_name)
                          THEN <<doc.platform, "page_name", doc.page_name>>
                          ELSE <<doc.platform>>
             IN /\ Len(tokens') <= Len(tokens) + 1
                /\ Len(tokens') >= Len(tokens)
                /\ \A i \in DOMAIN tokens :
                       key(tokens[i]) # key(upserts[r].body) =>
                           /\ tokens'[i].page_id = tokens[i].page_id
                           /\ tokens'[i].page_name = tokens[i].page_name
                           /\ tokens'[i].access_token = tokens[i].access_token
      ]_vars

\* One call stored a credential for page p1 of facebook; a later call for
\* facebook with no page found that credential and has written over it.
C25_Witness ==
    \E r, p \in 1 .. MaxUpserts :
        /\ r # p
        /\ upserts[p].pc = "done"
        /\ upserts[p].existing = 0
        /\ upserts[p].body.page_id = "p1"
        /\ upserts[r].pc = "done"
        /\ upserts[r].existing = 1
        /\ upserts[r].body.platform = "facebook"
        /\ upserts[r].body.page_id = None
        /\ upserts[r].body.page_name = None
        /\ Len(tokens) = 1
        /\ tokens[1].access_token = "t9"

=========================================================================
